---- MODULE Spec2Model ----
(***************************************************************************)
(* Time-tracker bot: the SQLite storage engine (database.py) and the       *)
(* aiogram handlers that drive it (bot.py).                                *)
(*                                                                         *)
(* Handlers are coroutines that the dispatcher runs as concurrent tasks.   *)
(* Every handler is one action, taken at the granularity of the updates    *)
(* the bot receives, except cmd_stop: stop_active_entry reads the active   *)
(* entry in one transaction and updates it in another, so /stop is a task  *)
(* with a step for the read, a step for the UPDATE and a step for the      *)
(* reply, and several /stop tasks can be in flight at once.                *)
(*                                                                         *)
(* Four scenarios bound the updates the bot receives:                      *)
(*   Spec       user 1 in the private chat, any clock reading;             *)
(*   SpecRace   user 1 in the private chat, concurrent /stop tasks;        *)
(*   SpecChats  user 1 in the private chat and in the group chat;          *)
(*   SpecGroup  users 1 and 2 in the group chat, with /addcat.             *)
(* and the operations of database.py are also called directly, with any    *)
(* argument, as a caller other than bot.py may:                            *)
(*   SpecCategories  add_category for users 1 and 2;                       *)
(*   SpecEntries     ensure_default_categories, start_entry with any       *)
(*                   category id, and stop_active_entry for users 1, 2;    *)
(*   SpecLive        the same for user 1, who keeps sending /stop.         *)
(*                                                                         *)
(* Text is a sequence of one-character strings; a nullable column is <<>>  *)
(* (NULL) or <<v>>.  Timestamps count clock ticks of 1/TicksPerSecond s.   *)
(* datetime.now() is the local wall clock: it is not monotonic, so every   *)
(* reading is an arbitrary value of Times.  isoformat()/fromisoformat()    *)
(* and str()/int() are lossless on the values they are applied to here,    *)
(* so a stored timestamp or a callback id is the value itself.             *)
(***************************************************************************)
EXTENDS Integers, Sequences, FiniteSets, TLC

\* ---- bounds ------------------------------------------------------------
\* /stop tasks in flight, rows of time_entries, clock ticks per second,
\* the largest clock reading, the clock reading of the group scenario.
MaxTasks == 2
MaxEntries == 2
TicksPerSecond == 2
MaxClock == 2
GroupNow == 1

Users == {1, 2}
Tasks == 1..MaxTasks
Times == 0..MaxClock
RaceTimes == {0, MaxClock}

\* A chat is a user's private chat with the bot or the one group chat.
GroupChat == <<"group", 0>>
PrivateChat(user_id) == <<"private", user_id>>
Chats == {PrivateChat(u) : u \in Users} \cup {GroupChat}

Null == <<>>
Some(v) == <<v>>
Val(x) == x[1]

DEFAULT_CATEGORIES ==
    << <<"w","o","r","k">>, <<"s","t","u","d","y">>,
       <<"s","p","o","r","t">>, <<"o","t","h","e","r">> >>

\* The message text received in the enter_task state, the /addcat
\* arguments, and the labels of the buttons the users press.
TaskText == <<" ","r">>
AddcatArgs == { <<"M","u">>, <<"m","u"," ","x">> }
PressedNames == { DEFAULT_CATEGORIES[1] }
\* The names passed to add_category when it is called directly.
EngineNames == { <<"M","u">>, <<" ","m","u">>, <<>> }

\* ---- str helpers -------------------------------------------------------
Whitespace == {" "}

LowerChar(c) == IF c = "M" THEN "m" ELSE c

lower(s) == [i \in 1..Len(s) |-> LowerChar(s[i])]

RECURSIVE lstrip(_)
lstrip(s) == IF s # <<>> /\ Head(s) \in Whitespace THEN lstrip(Tail(s)) ELSE s

RECURSIVE rstrip(_)
rstrip(s) ==
    IF s # <<>> /\ s[Len(s)] \in Whitespace
    THEN rstrip(SubSeq(s, 1, Len(s) - 1)) ELSE s

strip(s) == rstrip(lstrip(s))

RECURSIVE FirstWord(_)
FirstWord(s) ==
    IF s = <<>> \/ Head(s) \in Whitespace THEN <<>>
    ELSE <<Head(s)>> \o FirstWord(Tail(s))

\* int(x / TicksPerSecond): Python's int() truncates toward zero.
IntSeconds(ticks) ==
    IF ticks >= 0 THEN ticks \div TicksPerSecond
    ELSE -((-ticks) \div TicksPerSecond)

VARIABLES
    categories,    \* table categories: row id -> [user_id, name]
    time_entries,  \* table time_entries: row id -> row
    fsm_state,     \* FSMContext state of each (user, chat)
    fsm_data,      \* FSMContext data of each (user, chat): category_id
    keyboards,     \* callback_data of the buttons shown in each chat
    tasks          \* the cmd_stop tasks in flight

vars == <<categories, time_entries, fsm_state, fsm_data, keyboards, tasks>>

\* FSM keys (user, chat).
Sessions == {k \in Users \X Chats : k[2] \in {PrivateChat(k[1]), GroupChat}}
\* User 1 talking to the bot in the private chat, and in both chats.
PrivateSessions == {<<1, PrivateChat(1)>>}
SoloSessions == {k \in Sessions : k[1] = 1}
\* Both users talking to the bot in the group chat; user 2 adds categories.
GroupSessions == {k \in Sessions : k[2] = GroupChat}
AddcatSessions == {k \in GroupSessions : k[1] = 2}

IdleTask == [pc |-> "idle", user |-> 0, entry |-> Null, ret |-> Null]

\* ---- database.py -------------------------------------------------------
\* INSERT without OR IGNORE and without the UNIQUE constraint.
RECURSIVE InsertAll(_, _, _)
InsertAll(cats, user_id, names) ==
    IF names = <<>> THEN cats
    ELSE InsertAll(Append(cats, [user_id |-> user_id, name |-> Head(names)]),
                   user_id, Tail(names))

RECURSIVE InsertOrIgnoreAll(_, _, _)
InsertOrIgnoreAll(cats, user_id, names) ==
    IF names = <<>> THEN cats
    ELSE LET name == Head(names)
             dup == \E i \in DOMAIN cats :
                        cats[i].user_id = user_id /\ cats[i].name = name
             next == IF dup THEN cats
                     ELSE Append(cats, [user_id |-> user_id, name |-> name])
         IN InsertOrIgnoreAll(next, user_id, Tail(names))

ensure_default_categories(cats, user_id) ==
    InsertOrIgnoreAll(cats, user_id, DEFAULT_CATEGORIES)

\* SELECT id, name FROM categories WHERE user_id = ? ORDER BY id, from
\* row i on.
RECURSIVE SelectCategories(_, _, _)
SelectCategories(cats, user_id, i) ==
    IF i > Len(cats) THEN <<>>
    ELSE (IF cats[i].user_id = user_id
          THEN <<[id |-> i, name |-> cats[i].name]>> ELSE <<>>)
         \o SelectCategories(cats, user_id, i + 1)

get_categories(cats, user_id) == SelectCategories(cats, user_id, 1)

\* <<TRUE, cats'>> when inserted, <<FALSE, cats>> on IntegrityError.
add_category(cats, user_id, name) ==
    LET stored == lower(name)
        dup == \E i \in DOMAIN cats :
                   cats[i].user_id = user_id /\ cats[i].name = stored
    IN IF dup THEN <<FALSE, cats>>
       ELSE <<TRUE, Append(cats, [user_id |-> user_id, name |-> stored])>>

start_entry(entries, user_id, category_id, task_name, now) ==
    Append(entries, [user_id |-> user_id, category_id |-> category_id,
                     task_name |-> task_name, started_at |-> now,
                     stopped_at |-> Null, duration_seconds |-> Null])

\* The query without "te.stopped_at IS NULL".
ActiveIds_AnyStop(cats, entries, user_id) ==
    {i \in DOMAIN entries :
        /\ entries[i].user_id = user_id
        /\ entries[i].category_id \in DOMAIN cats}

\* The query without "te.user_id = ?".
ActiveIds_AnyUser(cats, entries, user_id) ==
    {i \in DOMAIN entries :
        /\ entries[i].stopped_at = Null
        /\ entries[i].category_id \in DOMAIN cats}

ActiveIds(cats, entries, user_id) ==
    {i \in DOMAIN entries :
        /\ entries[i].user_id = user_id
        /\ entries[i].stopped_at = Null
        /\ entries[i].category_id \in DOMAIN cats}

MaxOf(S) == CHOOSE m \in S : \A x \in S : x <= m

get_active_entry(cats, entries, user_id) ==
    LET ids == ActiveIds(cats, entries, user_id)
    IN IF ids = {} THEN Null
       ELSE LET i == MaxOf(ids)
            IN Some([id |-> i, task_name |-> entries[i].task_name,
                     started_at |-> entries[i].started_at,
                     category |-> cats[entries[i].category_id].name])

\* math.floor in place of int().
StopDuration_Floor(now, started) == (now - started) \div TicksPerSecond

StopDuration(now, started) == IntSeconds(now - started)

\* An UPDATE that sets stopped_at only.
UpdateStopped_StopOnly(entries, id, now, duration) ==
    [entries EXCEPT ![id].stopped_at = Some(now)]

UpdateStopped(entries, id, now, duration) ==
    [entries EXCEPT ![id].stopped_at = Some(now),
                    ![id].duration_seconds = Some(duration)]

\* The defaults of get_stats(days=7) and get_history(limit=10).
StatsDays == 7
HistoryLimit == 10

\* timedelta(days=days), in ticks.
DayTicks == 86400 * TicksPerSecond

\* The completed entries of the user that join a category.
CompletedIds(cats, entries, user_id) ==
    {i \in DOMAIN entries :
        /\ entries[i].user_id = user_id
        /\ entries[i].stopped_at # Null
        /\ entries[i].category_id \in DOMAIN cats}

RECURSIVE SumDurations(_, _)
SumDurations(entries, ids) ==
    IF ids = {} THEN 0
    ELSE LET i == CHOOSE x \in ids : TRUE
         IN Val(entries[i].duration_seconds) + SumDurations(entries, ids \ {i})

\* The rows of get_stats: GROUP BY c.name with SUM(te.duration_seconds).
StatsRows(cats, entries, user_id, days, now) ==
    LET since == now - days * DayTicks
        ids == {i \in CompletedIds(cats, entries, user_id) :
                    entries[i].started_at >= since}
        names == {cats[entries[i].category_id].name : i \in ids}
    IN {[category |-> n,
         total |-> SumDurations(entries,
                      {i \in ids : cats[entries[i].category_id].name = n})]
        : n \in names}

\* ORDER BY total DESC: the lists of the rows in descending order of total,
\* rows of equal total in either order.
RECURSIVE OrderedByTotal(_)
OrderedByTotal(rows) ==
    IF rows = {} THEN {<<>>}
    ELSE UNION {{<<r>> \o s : s \in OrderedByTotal(rows \ {r})}
                : r \in {x \in rows : \A y \in rows : x.total >= y.total}}

\* The lists get_stats may return.
get_stats(cats, entries, user_id, days, now) ==
    OrderedByTotal(StatsRows(cats, entries, user_id, days, now))

MinOf(S) == CHOOSE m \in S : \A x \in S : m <= x

\* ORDER BY te.id ASC in place of DESC.
RECURSIVE HistoryRows_OldestFirst(_, _, _, _)
HistoryRows_OldestFirst(cats, entries, ids, limit) ==
    IF ids = {} \/ limit = 0 THEN <<>>
    ELSE LET i == MinOf(ids)
         IN <<[task_name |-> entries[i].task_name,
               category |-> cats[entries[i].category_id].name,
               started_at |-> entries[i].started_at,
               duration_seconds |-> Val(entries[i].duration_seconds)]>>
            \o HistoryRows_OldestFirst(cats, entries, ids \ {i}, limit - 1)

\* ORDER BY te.id DESC LIMIT ?: a negative LIMIT is no limit in SQLite.
RECURSIVE HistoryRows(_, _, _, _)
HistoryRows(cats, entries, ids, limit) ==
    IF ids = {} \/ limit = 0 THEN <<>>
    ELSE LET i == MaxOf(ids)
         IN <<[task_name |-> entries[i].task_name,
               category |-> cats[entries[i].category_id].name,
               started_at |-> entries[i].started_at,
               duration_seconds |-> Val(entries[i].duration_seconds)]>>
            \o HistoryRows(cats, entries, ids \ {i}, limit - 1)

get_history_OldestFirst(cats, entries, user_id, limit) ==
    HistoryRows_OldestFirst(cats, entries,
                            CompletedIds(cats, entries, user_id), limit)

get_history(cats, entries, user_id, limit) ==
    HistoryRows(cats, entries, CompletedIds(cats, entries, user_id), limit)

\* ---- bot.py -----------------------------------------------------------
FreeTask(t) ==
    /\ tasks[t].pc = "idle"
    /\ \A s \in Tasks : s < t => tasks[s].pc # "idle"

Init ==
    /\ categories = <<>>
    /\ time_entries = <<>>
    /\ fsm_state = [k \in Sessions |-> "None"]
    /\ fsm_data = [k \in Sessions |-> Null]
    /\ keyboards = [c \in Chats |-> {}]
    /\ tasks = [t \in Tasks |-> IdleTask]

cmd_start(k) ==
    /\ categories' = ensure_default_categories(categories, k[1])
    /\ UNCHANGED <<time_entries, fsm_state, fsm_data, keyboards, tasks>>

TrackCategories(cats, user_id) ==
    IF get_categories(cats, user_id) = <<>>
    THEN ensure_default_categories(cats, user_id)
    ELSE cats

\* With a running timer /track only replies.  keyboards collects the
\* buttons sent to a chat: a keyboard stays until one of its buttons is
\* pressed, and every later /track sends the same ids again.
cmd_track(k) ==
    /\ get_active_entry(categories, time_entries, k[1]) = Null
    /\ categories' = TrackCategories(categories, k[1])
    /\ \E cats \in {get_categories(categories', k[1])} :
          keyboards' = [keyboards EXCEPT ![k[2]] =
                           @ \cup {cats[i].id : i \in DOMAIN cats}]
    /\ fsm_state' = [fsm_state EXCEPT ![k] = "pick_category"]
    /\ UNCHANGED <<time_entries, fsm_data, tasks>>

\* A callback query of user k[1] on a button shown in chat k[2].
pick_category(k, data) ==
    /\ fsm_state[k] = "pick_category"
    /\ data \in keyboards[k[2]]
    /\ fsm_data' = [fsm_data EXCEPT ![k] = Some(data)]
    /\ fsm_state' = [fsm_state EXCEPT ![k] = "enter_task"]
    /\ UNCHANGED <<categories, time_entries, keyboards, tasks>>

\* With no state set /cancel only replies.
cmd_cancel(k) ==
    /\ fsm_state[k] # "None"
    /\ fsm_state' = [fsm_state EXCEPT ![k] = "None"]
    /\ fsm_data' = [fsm_data EXCEPT ![k] = Null]
    /\ UNCHANGED <<categories, time_entries, keyboards, tasks>>

\* The handler without "await state.clear()".
enter_task_NoClear(k, text, now) ==
    /\ fsm_state[k] = "enter_task"
    /\ fsm_data[k] # Null
    /\ time_entries' = start_entry(time_entries, k[1], Val(fsm_data[k]),
                                   strip(text), now)
    /\ UNCHANGED <<categories, fsm_state, fsm_data, keyboards, tasks>>

\* data["category_id"] is set whenever the state is enter_task.
enter_task(k, text, now) ==
    /\ fsm_state[k] = "enter_task"
    /\ fsm_data[k] # Null
    /\ time_entries' = start_entry(time_entries, k[1], Val(fsm_data[k]),
                                   strip(text), now)
    /\ fsm_state' = [fsm_state EXCEPT ![k] = "None"]
    /\ fsm_data' = [fsm_data EXCEPT ![k] = Null]
    /\ UNCHANGED <<categories, keyboards, tasks>>

\* enter_task is registered before cmd_stop and cmd_addcat: in the
\* enter_task state their command texts are taken as task names.
cmd_stop(t, k) ==
    /\ FreeTask(t)
    /\ fsm_state[k] # "enter_task"
    /\ tasks' = [tasks EXCEPT ![t] = [IdleTask EXCEPT !.pc = "get_active_entry",
                                                      !.user = k[1]]]
    /\ UNCHANGED <<categories, time_entries, fsm_state, fsm_data, keyboards>>

stop_active_entry_get(t) ==
    /\ tasks[t].pc = "get_active_entry"
    /\ LET entry == get_active_entry(categories, time_entries, tasks[t].user)
       IN tasks' = [tasks EXCEPT ![t].entry = entry,
                                 ![t].pc = IF entry = Null THEN "answer"
                                           ELSE "update"]
    /\ UNCHANGED <<categories, time_entries, fsm_state, fsm_data, keyboards>>

Returned(entry, duration) ==
    [id |-> entry.id, task_name |-> entry.task_name,
     started_at |-> entry.started_at, category |-> entry.category,
     duration_seconds |-> duration]

stop_active_entry_update(t, now) ==
    /\ tasks[t].pc = "update"
    /\ LET entry == Val(tasks[t].entry)
           duration == StopDuration(now, entry.started_at)
       IN /\ time_entries' = UpdateStopped(time_entries, entry.id, now, duration)
          /\ tasks' = [tasks EXCEPT ![t].ret = Some(Returned(entry, duration)),
                                    ![t].pc = "answer"]
    /\ UNCHANGED <<categories, fsm_state, fsm_data, keyboards>>

cmd_stop_answer(t) ==
    /\ tasks[t].pc = "answer"
    /\ tasks' = [tasks EXCEPT ![t] = IdleTask]
    /\ UNCHANGED <<categories, time_entries, fsm_state, fsm_data, keyboards>>

AddcatName(args) == lower(FirstWord(strip(args)))

cmd_addcat(k, args) ==
    /\ fsm_state[k] # "enter_task"
    /\ categories' = add_category(categories, k[1], AddcatName(args))[2]
    /\ UNCHANGED <<time_entries, fsm_state, fsm_data, keyboards, tasks>>

Pressable == {i \in DOMAIN categories : categories[i].name \in PressedNames}

\* User 1 in the private chat, one /stop task at a time, any clock reading.
Next ==
    \/ \E k \in PrivateSessions : cmd_start(k)
    \/ \E k \in PrivateSessions : cmd_track(k)
    \/ \E k \in PrivateSessions, data \in Pressable : pick_category(k, data)
    \/ \E k \in PrivateSessions : cmd_cancel(k)
    \/ \E k \in PrivateSessions, now \in Times :
           Len(time_entries) < MaxEntries /\ enter_task(k, TaskText, now)
    \/ \E k \in PrivateSessions : cmd_stop(1, k)
    \/ stop_active_entry_get(1)
    \/ \E now \in Times : stop_active_entry_update(1, now)
    \/ cmd_stop_answer(1)

Spec == Init /\ [][Next]_vars

\* User 1 in the private chat, concurrent /stop tasks, the clock reading
\* either end of Times.
NextRace ==
    \/ \E k \in PrivateSessions : cmd_track(k)
    \/ \E k \in PrivateSessions, data \in Pressable : pick_category(k, data)
    \/ \E k \in PrivateSessions, now \in RaceTimes :
           Len(time_entries) < MaxEntries /\ enter_task(k, TaskText, now)
    \/ \E t \in Tasks, k \in PrivateSessions : cmd_stop(t, k)
    \/ \E t \in Tasks : stop_active_entry_get(t)
    \/ \E t \in Tasks, now \in RaceTimes : stop_active_entry_update(t, now)
    \/ \E t \in Tasks : cmd_stop_answer(t)

SpecRace == Init /\ [][NextRace]_vars

\* User 1 in the private chat and in the group chat, one /stop task at a
\* time, a clock that stands at GroupNow.
NextChats ==
    \/ \E k \in SoloSessions : cmd_track(k)
    \/ \E k \in SoloSessions, data \in Pressable : pick_category(k, data)
    \/ \E k \in SoloSessions : cmd_cancel(k)
    \/ \E k \in SoloSessions :
           Len(time_entries) < MaxEntries /\ enter_task(k, TaskText, GroupNow)
    \/ \E k \in SoloSessions : cmd_stop(1, k)
    \/ stop_active_entry_get(1)
    \/ stop_active_entry_update(1, GroupNow)
    \/ cmd_stop_answer(1)

SpecChats == Init /\ [][NextChats]_vars

\* Both users in the group chat, one /stop task at a time, a clock that
\* stands at GroupNow.
NextGroup ==
    \/ \E k \in GroupSessions : cmd_start(k)
    \/ \E k \in GroupSessions : cmd_track(k)
    \/ \E k \in GroupSessions, data \in Pressable : pick_category(k, data)
    \/ \E k \in GroupSessions : cmd_cancel(k)
    \/ \E k \in GroupSessions :
           Len(time_entries) < MaxEntries /\ enter_task(k, TaskText, GroupNow)
    \/ \E k \in GroupSessions : cmd_stop(1, k)
    \/ stop_active_entry_get(1)
    \/ stop_active_entry_update(1, GroupNow)
    \/ cmd_stop_answer(1)
    \/ \E k \in AddcatSessions, args \in AddcatArgs : cmd_addcat(k, args)

SpecGroup == Init /\ [][NextGroup]_vars

\* ---- database.py called directly ---------------------------------------
\* await db.add_category(user_id, name), whatever it returns.
call_add_category(user_id, name) ==
    /\ categories' = add_category(categories, user_id, name)[2]
    /\ UNCHANGED <<time_entries, fsm_state, fsm_data, keyboards, tasks>>

NextCategories ==
    \E u \in Users, name \in EngineNames : call_add_category(u, name)

SpecCategories == Init /\ [][NextCategories]_vars

\* The category ids passed to start_entry when it is called directly: the
\* ids of the categories named in PressedNames, and the id of no category.
EngineCategoryIds == Pressable \cup {Len(categories) + 1}

\* await db.start_entry(user_id, category_id, task_name).
call_start_entry(user_id, category_id, task_name, now) ==
    /\ time_entries' = start_entry(time_entries, user_id, category_id,
                                   task_name, now)
    /\ UNCHANGED <<categories, fsm_state, fsm_data, keyboards, tasks>>

\* Both users, one stop_active_entry call at a time, a clock that reads
\* either end of Times at a start and GroupNow at a stop.  cmd_start is
\* ensure_default_categories, and cmd_stop is stop_active_entry with its
\* reply.
NextEntries ==
    \/ \E k \in GroupSessions : cmd_start(k)
    \/ \E u \in Users, c \in EngineCategoryIds, now \in RaceTimes :
           /\ Len(time_entries) < MaxEntries
           /\ call_start_entry(u, c, strip(TaskText), now)
    \/ \E k \in GroupSessions : cmd_stop(1, k)
    \/ stop_active_entry_get(1)
    \/ stop_active_entry_update(1, GroupNow)
    \/ cmd_stop_answer(1)

SpecEntries == Init /\ [][NextEntries]_vars

\* A step of a /stop of the user in the private chat.
StopSteps ==
    \/ \E k \in PrivateSessions : cmd_stop(1, k)
    \/ stop_active_entry_get(1)
    \/ stop_active_entry_update(1, GroupNow)
    \/ cmd_stop_answer(1)

\* User 1 alone, a clock that reads either end of Times at a start and
\* GroupNow at a stop.  The user keeps sending /stop, and the dispatcher
\* runs every handler to its end.
NextLive ==
    \/ \E k \in PrivateSessions : cmd_start(k)
    \/ \E k \in PrivateSessions, c \in EngineCategoryIds, now \in RaceTimes :
           /\ Len(time_entries) < MaxEntries
           /\ call_start_entry(k[1], c, strip(TaskText), now)
    \/ StopSteps

SpecLive == Init /\ [][NextLive]_vars /\ WF_vars(StopSteps)

\* ---- properties --------------------------------------------------------
\* The user's entries with a null stop timestamp.
ActiveEntries(user_id) ==
    {i \in DOMAIN time_entries :
        time_entries[i].user_id = user_id /\ time_entries[i].stopped_at = Null}

\* C1: in every reachable state every user has at most one time entry
\* with a null stop timestamp.
C1_AtMostOneActive ==
    \A u \in Users : Cardinality(ActiveEntries(u)) <= 1

\* C2: once an entry is stopped, its stop timestamp and its duration never
\* change again.
C2_StoppedNeverChanges ==
    [][\A i \in DOMAIN time_entries :
          time_entries[i].stopped_at # Null =>
              /\ time_entries'[i].stopped_at = time_entries[i].stopped_at
              /\ time_entries'[i].duration_seconds =
                     time_entries[i].duration_seconds]_vars

\* C3: in every reachable state, also between the read and the write of a
\* stop_active_entry call, every entry has a null duration exactly when it
\* has a null stop timestamp.
C3_DurationNullIffActive ==
    \A i \in DOMAIN time_entries :
        (time_entries[i].duration_seconds = Null)
            <=> (time_entries[i].stopped_at = Null)

\* A stopped entry while another /stop task that read it has yet to write.
C3_Witness ==
    \E t \in Tasks :
        /\ tasks[t].pc = "update"
        /\ time_entries[Val(tasks[t].entry).id].stopped_at # Null
        /\ time_entries[Val(tasks[t].entry).id].duration_seconds # Null

\* C4: every stopped entry has a duration of at least 0 seconds, whatever
\* the clock read at start and at stop.
C4_DurationNonNegative ==
    \A i \in DOMAIN time_entries :
        time_entries[i].duration_seconds # Null =>
            Val(time_entries[i].duration_seconds) >= 0

\* A /stop task whose UPDATE takes the step, and the entry it read is still
\* the one get_active_entry returns (nothing came between read and write).
StopsActive(t) ==
    /\ tasks[t].pc = "update"
    /\ tasks'[t].pc = "answer"
    /\ tasks[t].entry = get_active_entry(categories, time_entries, tasks[t].user)

\* C5: after stop_active_entry(user) stopped the user's active entry and
\* returned it, get_active_entry(user) returns none.
C5_NoneActiveAfterStop ==
    [][\A t \in Tasks :
          StopsActive(t) =>
              get_active_entry(categories', time_entries', tasks[t].user) = Null]_vars

\* A step that is the enter_task handler of session k.
EnterTaskStep(k) ==
    /\ fsm_state[k] = "enter_task"
    /\ fsm_data[k] # Null
    /\ fsm_state'[k] = "None"
    /\ Len(time_entries') = Len(time_entries) + 1

\* start_entry's arguments are valid: a non-empty task name and the id of
\* a category of the user.
ValidStart(user_id, category_id, task_name) ==
    /\ task_name # <<>>
    /\ category_id \in DOMAIN categories
    /\ categories[category_id].user_id = user_id

\* C6: start_entry(user, category_id, task_name) creates no time entry when
\* task_name is empty or category_id is not a category of the user.
C6_InvalidStartCreatesNothing ==
    [][\A k \in Sessions :
          EnterTaskStep(k) =>
              ValidStart(k[1], Val(fsm_data[k]), strip(TaskText))]_vars

FloorSeconds(ticks) == ticks \div TicksPerSecond

\* q is ticks / TicksPerSecond rounded toward zero.
IsTruncation(q, ticks) ==
    IF ticks >= 0
    THEN q >= 0 /\ q * TicksPerSecond <= ticks /\ ticks < (q + 1) * TicksPerSecond
    ELSE q <= 0 /\ (q - 1) * TicksPerSecond < ticks /\ ticks <= q * TicksPerSecond

\* The /stop task t takes the step of its UPDATE.
StopUpdateStep(t) == tasks[t].pc = "update" /\ tasks'[t].pc = "answer"

\* What the step stored and returned: the same duration, and the task name
\* and category name of the entry.
StoredIsReturned(t) ==
    LET id == Val(tasks[t].entry).id
        row == time_entries'[id]
        ret == Val(tasks'[t].ret)
    IN /\ tasks'[t].ret # Null
       /\ row.duration_seconds = Some(ret.duration_seconds)
       /\ ret.id = id
       /\ ret.task_name = row.task_name
       /\ ret.category = categories[row.category_id].name

ElapsedTicks(t) ==
    LET row == time_entries'[Val(tasks[t].entry).id]
    IN Val(row.stopped_at) - row.started_at

\* C7 as stated: stop_active_entry stores and returns the floor of stop
\* minus start in seconds, with the entry's task name and category name.
C7_DurationIsFloor ==
    [][\A t \in Tasks :
          StopUpdateStep(t) =>
              /\ StoredIsReturned(t)
              /\ Val(tasks'[t].ret).duration_seconds = FloorSeconds(ElapsedTicks(t))]_vars

\* C7 amended: stop_active_entry stores and returns stop minus start in
\* seconds rounded toward zero, which is the floor when the clock read at
\* stop is not earlier than the start timestamp, with the entry's task name
\* and category name.
C7_DurationIsTruncated ==
    [][\A t \in Tasks :
          StopUpdateStep(t) =>
              /\ StoredIsReturned(t)
              /\ IsTruncation(Val(tasks'[t].ret).duration_seconds, ElapsedTicks(t))
              /\ ElapsedTicks(t) >= 0 =>
                     Val(tasks'[t].ret).duration_seconds
                         = FloorSeconds(ElapsedTicks(t))]_vars

\* A /stop returned a whole second for two ticks, and another entry was
\* stopped half a second before its start with duration 0.
C7_Witness ==
    /\ \E t \in Tasks :
          /\ tasks[t].pc = "answer"
          /\ tasks[t].ret # Null
          /\ Val(tasks[t].ret).duration_seconds = 1
          /\ Val(tasks[t].ret).task_name = strip(TaskText)
          /\ time_entries[Val(tasks[t].ret).id].stopped_at
                 = Some(Val(tasks[t].ret).started_at + TicksPerSecond)
    /\ \E i \in DOMAIN time_entries :
          /\ time_entries[i].stopped_at = Some(time_entries[i].started_at - 1)
          /\ time_entries[i].duration_seconds = Some(0)

\* C8: stop_active_entry(user) with no entry of the user that has a null
\* stop timestamp returns none, and neither the read nor the reply of the
\* /stop changes any category or time entry.
C8_StopWithoutActiveIsNoop ==
    [][\A t \in Tasks :
          /\ (/\ tasks[t].pc = "get_active_entry"
              /\ ActiveEntries(tasks[t].user) = {}
              /\ tasks'[t] # tasks[t])
                 => /\ tasks'[t].pc = "answer"
                    /\ tasks'[t].entry = Null
                    /\ tasks'[t].ret = Null
                    /\ categories' = categories
                    /\ time_entries' = time_entries
          /\ (/\ tasks[t].pc = "answer"
              /\ tasks[t].entry = Null
              /\ tasks'[t] # tasks[t])
                 => /\ tasks[t].ret = Null
                    /\ categories' = categories
                    /\ time_entries' = time_entries]_vars

\* A /stop that found nothing to stop although the user has entries.
C8_Witness ==
    \E t \in Tasks :
        /\ tasks[t].pc = "answer"
        /\ tasks[t].entry = Null
        /\ tasks[t].ret = Null
        /\ ActiveEntries(tasks[t].user) = {}
        /\ \E i \in DOMAIN time_entries : time_entries[i].user_id = tasks[t].user

\* A step of the group scenario taken on behalf of user a: one of the
\* user's handlers, or a step of the user's /stop task.
StepOf(a) ==
    \/ \E k \in GroupSessions :
          /\ k[1] = a
          /\ \/ cmd_start(k)
             \/ cmd_track(k)
             \/ \E data \in Pressable : pick_category(k, data)
             \/ cmd_cancel(k)
             \/ enter_task(k, TaskText, GroupNow)
             \/ cmd_stop(1, k)
             \/ \E args \in AddcatArgs : cmd_addcat(k, args)
    \/ /\ tasks[1].user = a
       /\ \/ stop_active_entry_get(1)
          \/ stop_active_entry_update(1, GroupNow)
          \/ cmd_stop_answer(1)

RowsOf(table, user_id) ==
    {<<i, table[i]>> : i \in {j \in DOMAIN table : table[j].user_id = user_id}}

\* The step leaves the rows of user b and the results of b's queries alone.
Untouched(b) ==
    /\ RowsOf(categories', b) = RowsOf(categories, b)
    /\ RowsOf(time_entries', b) = RowsOf(time_entries, b)
    /\ get_categories(categories', b) = get_categories(categories, b)
    /\ get_active_entry(categories', time_entries', b)
           = get_active_entry(categories, time_entries, b)
    /\ get_stats(categories', time_entries', b, StatsDays, GroupNow)
           = get_stats(categories, time_entries, b, StatsDays, GroupNow)
    /\ get_history(categories', time_entries', b, HistoryLimit)
           = get_history(categories, time_entries, b, HistoryLimit)

EnsureStep(u) ==
    /\ UNCHANGED <<time_entries, fsm_data, tasks>>
    /\ \/ UNCHANGED <<fsm_state, keyboards>> /\ cmd_start(<<u, GroupChat>>)
       \/ /\ fsm_state' # fsm_state \/ keyboards' # keyboards
          /\ get_categories(categories, u) = <<>>
          /\ \E k \in Sessions : k[1] = u /\ cmd_track(k)

CategoryNames(cats, user_id) ==
    LET rows == get_categories(cats, user_id)
    IN [i \in DOMAIN rows |-> rows[i].name]

Occurrences(names, name) == Cardinality({i \in DOMAIN names : names[i] = name})

\* C10 as stated: after ensure_default_categories(user) the user's list is
\* exactly [work, study, sport, other], and a second call changes no row.
C10_ExactlyDefaults ==
    [][\A u \in Users :
          EnsureStep(u) =>
              /\ CategoryNames(categories', u) = DEFAULT_CATEGORIES
              /\ ensure_default_categories(categories', u) = categories']_vars

\* C10 amended: after ensure_default_categories(user) the user's list holds
\* each of work, study, sport, other exactly once, and is exactly
\* [work, study, sport, other] when the user had no category before; a
\* second call changes no row.
C10_DefaultsOnce ==
    [][\A u \in Users :
          EnsureStep(u) =>
              \A names \in {CategoryNames(categories', u)} :
                 /\ \A d \in DOMAIN DEFAULT_CATEGORIES :
                       Occurrences(names, DEFAULT_CATEGORIES[d]) = 1
                 /\ get_categories(categories, u) = <<>> =>
                       names = DEFAULT_CATEGORIES
                 /\ ensure_default_categories(categories', u) = categories']_vars

\* The defaults were added after a category of the user's own.
C10_Witness ==
    \E u \in Users :
        CategoryNames(categories, u)
            = <<AddcatName(<<"M","u">>)>> \o DEFAULT_CATEGORIES

\* The normalized form of a category name: trimmed and lowercased.
Normalized(name) == lower(strip(name))

UserNames(cats, user_id) ==
    {cats[i].name : i \in {j \in DOMAIN cats : cats[j].user_id = user_id}}

\* C11: add_category(user, name) stores the trimmed and lowercased name and
\* returns true when the user has no category of that normalized name, and
\* then a call with any name of the same normalized form returns false and
\* leaves the categories unchanged.
C11_AddCategoryNormalizes ==
    [][\A u \in Users, n1 \in EngineNames :
          (/\ Normalized(n1) \notin UserNames(categories, u)
           /\ call_add_category(u, n1))
             => /\ add_category(categories, u, n1)[1]
                /\ UserNames(categories', u)
                       = UserNames(categories, u) \cup {Normalized(n1)}
                /\ \A n2 \in EngineNames :
                       Normalized(n2) = Normalized(n1) =>
                           add_category(categories', u, n2)
                               = <<FALSE, categories'>>]_vars

\* C12: in every reachable state no two categories have the same owning
\* user and name, and every stored category name is non-empty and
\* lowercase (the same name may belong to two users).
C12_CategoriesWellFormed ==
    /\ \A i \in DOMAIN categories, j \in DOMAIN categories :
          (/\ categories[i].user_id = categories[j].user_id
           /\ categories[i].name = categories[j].name) => i = j
    /\ \A i \in DOMAIN categories :
          /\ categories[i].name # <<>>
          /\ categories[i].name = lower(categories[i].name)

\* C13: get_active_entry(user) returns none exactly when the user has no
\* entry with a null stop timestamp, and otherwise the one of them with the
\* highest id (the new entry right after start_entry), with its task name,
\* its start timestamp and the name of its category.
C13_ActiveEntryReturned ==
    \A u \in Users :
        \A r \in {get_active_entry(categories, time_entries, u)} :
            IF ActiveEntries(u) = {} THEN r = Null
            ELSE /\ r # Null
                 /\ Val(r).id = MaxOf(ActiveEntries(u))
                 /\ Val(r).task_name = time_entries[Val(r).id].task_name
                 /\ Val(r).started_at = time_entries[Val(r).id].started_at
                 /\ Val(r).category
                        = categories[time_entries[Val(r).id].category_id].name

\* The completed entries of the user that started within the trailing
\* window of the given days, and those of them in category c.
InWindow(user_id, days, now) ==
    {i \in DOMAIN time_entries :
        /\ time_entries[i].user_id = user_id
        /\ time_entries[i].stopped_at # Null
        /\ time_entries[i].started_at >= now - days * DayTicks}

InWindowOf(c, user_id, days, now) ==
    {i \in InWindow(user_id, days, now) : time_entries[i].category_id = c}

\* The windows and the clock readings get_stats is asked with.
StatsWindows == {0, StatsDays}

\* C14: get_stats(user, window_days) returns one row per category that has
\* a completed entry of the user started within the window, with the name
\* of the category and the sum of the durations of exactly those entries,
\* and the rows are in descending order of total.
C14_StatsPerCategory ==
    \A u \in Users, days \in StatsWindows, now \in Times :
        \A cs \in {{time_entries[i].category_id : i \in InWindow(u, days, now)}} :
            \A rows \in get_stats(categories, time_entries, u, days, now) :
                /\ Len(rows) = Cardinality(cs)
                /\ \A c \in cs : \E j \in DOMAIN rows :
                      /\ rows[j].category = categories[c].name
                      /\ rows[j].total
                             = SumDurations(time_entries,
                                            InWindowOf(c, u, days, now))
                /\ \A j \in DOMAIN rows :
                      j < Len(rows) => rows[j].total >= rows[j + 1].total

\* The user's entries with a stop timestamp, and the one of them with
\* exactly j - 1 of them above it.
CompletedEntries(user_id) ==
    {i \in DOMAIN time_entries :
        time_entries[i].user_id = user_id /\ time_entries[i].stopped_at # Null}

NthHighest(S, j) == CHOOSE x \in S : Cardinality({y \in S : y > x}) = j - 1

HistoryRowOf(i) ==
    [task_name |-> time_entries[i].task_name,
     category |-> categories[time_entries[i].category_id].name,
     started_at |-> time_entries[i].started_at,
     duration_seconds |-> Val(time_entries[i].duration_seconds)]

\* The limits get_history is asked with.
HistoryLimits == (0..MaxEntries) \cup {HistoryLimit}

\* C15: get_history(user, limit) returns at most limit rows; they are the
\* rows of the limit highest-id completed entries of the user (all of them
\* when there are fewer), highest id first, so no active entry and no
\* entry of another user appears.
C15_HistoryMostRecentFirst ==
    \A u \in Users, limit \in HistoryLimits :
        \A rows \in {get_history(categories, time_entries, u, limit)} :
            /\ Len(rows) <= limit
            /\ Len(rows) = limit \/ Len(rows) = Cardinality(CompletedEntries(u))
            /\ Len(rows) <= Cardinality(CompletedEntries(u))
            /\ \A j \in DOMAIN rows :
                  rows[j] = HistoryRowOf(NthHighest(CompletedEntries(u), j))

\* A user with two completed entries that started at different clock
\* readings, of which a limit of one returns only the later created.
C15_Witness ==
    \E u \in Users :
        /\ Cardinality(CompletedEntries(u)) = 2
        /\ Len(get_history(categories, time_entries, u, 1)) = 1
        /\ \A rows \in {get_history(categories, time_entries, u, HistoryLimit)} :
              /\ Len(rows) = 2
              /\ rows[1] # rows[2]
              /\ rows[1] = HistoryRowOf(MaxOf(CompletedEntries(u)))

\* C16: add_category(user, name) with a name whose trimmed and lowercased
\* form is empty is rejected: it does not report a new category and it
\* adds none.
C16_EmptyNameRejected ==
    [][\A u \in Users, name \in EngineNames :
          (Normalized(name) = <<>> /\ call_add_category(u, name))
             => /\ ~add_category(categories, u, name)[1]
                /\ categories' = categories]_vars

\* The step creates a time entry.
CreatesEntry == Len(time_entries') > Len(time_entries)

\* The step creates exactly the entry that session k is waiting to name:
\* one active entry of the session's user in the pending category.
CreatedBy(k) ==
    /\ fsm_state[k] = "enter_task"
    /\ fsm_data[k] # Null
    /\ Len(time_entries') = Len(time_entries) + 1
    /\ SubSeq(time_entries', 1, Len(time_entries)) = time_entries
    /\ \A e \in {time_entries'[Len(time_entries')]} :
          /\ e.user_id = k[1]
          /\ e.category_id = Val(fsm_data[k])
          /\ e.task_name = strip(TaskText)
          /\ e.stopped_at = Null
    /\ fsm_state'[k] = "None"
    /\ fsm_data'[k] = Null

\* C17: a time entry is created only by the task name sent in a session
\* that is in the enter_task state with a category chosen in that session,
\* after which the session is idle; choosing a category writes to no table;
\* and /cancel in the pick_category or the enter_task state leaves the
\* session idle and creates no entry.
C17_TwoStepFlow ==
    [][/\ CreatesEntry => \E k \in Sessions : CreatedBy(k)
       /\ \A k \in Sessions :
             /\ (fsm_data'[k] # Null /\ fsm_data'[k] # fsm_data[k])
                   => /\ fsm_state[k] = "pick_category"
                      /\ fsm_state'[k] = "enter_task"
                      /\ categories' = categories
                      /\ time_entries' = time_entries
             /\ fsm_state[k] # "None" => ENABLED cmd_cancel(k)
             /\ cmd_cancel(k)
                   => /\ fsm_state'[k] = "None"
                      /\ fsm_data'[k] = Null
                      /\ time_entries' = time_entries]_vars

\* An entry was created from one session of the user, which is idle again,
\* while another session of the user holds a pending category.
C17_Witness ==
    \E k \in Sessions, k2 \in Sessions :
        /\ k[1] = k2[1] /\ k # k2
        /\ \E i \in DOMAIN time_entries : time_entries[i].user_id = k[1]
        /\ fsm_state[k] = "None" /\ fsm_data[k] = Null
        /\ fsm_state[k2] = "enter_task" /\ fsm_data[k2] # Null

\* C18: in every reachable state of the track flow, with every callback
\* carrying an id from a keyboard the bot sent to the chat, every time entry
\* references a category owned by the entry's own user.
C18_EntryCategoryOwned ==
    \A i \in DOMAIN time_entries :
        /\ time_entries[i].category_id \in DOMAIN categories
        /\ categories[time_entries[i].category_id].user_id
               = time_entries[i].user_id

\* No stop_active_entry call is between its read and the end of its write.
NoStopInFlight ==
    \A t \in Tasks : tasks[t].pc \notin {"get_active_entry", "update"}

\* C19: once no stop_active_entry call is in flight, the duration that a
\* call returned is the duration stored for the entry it returned, whatever
\* the interleaving of the calls of the same user.
C19_ReturnedIsPersisted ==
    NoStopInFlight =>
        \A t \in Tasks :
            tasks[t].ret # Null =>
                time_entries[Val(tasks[t].ret).id].duration_seconds
                    = Some(Val(tasks[t].ret).duration_seconds)

\* C20: when user 1 keeps sending /stop, from some point on (no later than
\* the last entry being started and stopped) the user has no time entry
\* with a null stop timestamp.
C20_EventuallyStopped == <>[](ActiveEntries(1) = {})
====
